---- MODULE Spec2Model ----
(***************************************************************************)
(* Census data pipeline: the batch fetch, the assembly of a fetch result,  *)
(* the margin-of-error expansion and the boundary join of CensusPipeline   *)
(* (src/src/census_pipeline.py), the request construction and the rate     *)
(* limit of CensusAPIClient (src/src/api_client.py), the GEOID functions   *)
(* and boundary files of src/src/geography.py, the transformers of         *)
(* src/src/transformers.py and the export of src/src/exporters.py.         *)
(*                                                                         *)
(* Strings of digits are sequences of one-character strings, so that       *)
(* concatenation and slicing are the sequence operations.                  *)
(***************************************************************************)
EXTENDS Integers, Sequences, FiniteSets, TLC

\* ------------------------------------------------------------------ bounds

\* Longest list of state ids given to fetch_batch_states.
MaxStates == 3

\* Largest parallel_workers a pipeline is constructed with (at least 1:
\* ThreadPoolExecutor accepts no smaller max_workers).
MaxWorkers == 2

\* How far the length of a component given to the GEOID functions strays
\* from its fixed width.
MaxSlack == 1

\* Most data rows of a raw response given to the table assembly.
MaxRows == 2

\* How long the clock of the rate limit is watched, in tenths of a second.
MaxTime == 11

\* ------------------------------------------------------------ batch: state

VARIABLES
    parallel_workers,    \* CensusPipeline.parallel_workers
    geography,           \* argument of fetch_batch_states
    states,              \* argument of fetch_batch_states (rebound by the wildcard)
    year,                \* argument of fetch_batch_states
    data_product,        \* argument of fetch_batch_states
    pc,                  \* position of the calling thread in fetch_batch_states
    futures,             \* the dict future -> state; futures are numbered 1..n
    task,                \* position of each submitted task
    future,              \* outcome each future holds once finished
    last_request_time,   \* CensusAPIClient._last_request_time, as the task that stamped it
    readers,             \* tasks that have read _last_request_time
    writers,             \* tasks that have written _last_request_time
    collected,           \* futures the as_completed loop has handled
    results,             \* the list results
    log,                 \* entries the calling thread wrote to the log sink
    ret,                 \* what the call returned, once returned
    err                  \* what the call raised, once raised

bvars == <<parallel_workers, geography, states, year, data_product, pc, futures,
           task, future, last_request_time, readers, writers, collected,
           results, log, ret, err>>

\* ------------------------------------------------------------ GEOID: state

VARIABLES
    g_pc,        \* "idle", "args", "built", "parsed"
    g_args,      \* the components given: state, county, tract, block_group
    g_op,        \* the function that built the GEOID
    g_raised,    \* the error the function raised, "" when none
    g_geoid,     \* the GEOID built
    g_parsed     \* parse_geoid of the GEOID built

gvars == <<g_pc, g_args, g_op, g_raised, g_geoid, g_parsed>>

\* --------------------------------------------------------- assembly: state

VARIABLES
    a_pc,         \* "idle", "response", "parsed", "assembled", "raised"
    a_data,       \* what the data source holds for the variable, row by row
    a_response,   \* the raw response: the header row, then the data rows
    a_var_dict,   \* var_dict: variable code -> friendly name
    a_geography,  \* the geography level of the fetch
    a_df,         \* the DataFrame df of the fetch
    a_raised      \* the error the fetch raised, "" when none

avars == <<a_pc, a_data, a_response, a_var_dict, a_geography, a_df, a_raised>>

\* The transformer calls: the frame given, the call, the frame returned, the
\* error raised, and the frame a second call on the returned frame returns.
VARIABLES
    t_pc, t_df, t_call, t_out, t_raised, t_again

tvars == <<t_pc, t_df, t_call, t_out, t_raised, t_again>>

\* The margin-of-error expansion of fetch_acs5.
VARIABLES
    v_pc,           \* "idle", "call", "normalized", "expanded"
    v_variables,    \* the caller's variables object: a list or a dict
    v_before,       \* the caller's variables object as it was at the call
    v_include_moe,  \* include_moe
    v_aliased,      \* var_dict is the caller's object itself
    v_var_dict      \* var_dict of fetch_acs5

vvars == <<v_pc, v_variables, v_before, v_include_moe, v_aliased, v_var_dict>>

\* Boundary files: the lookup of the id column, the join, the export.
VARIABLES
    j_pc,       \* "idle", "given", "returned", "raised"
    j_df,       \* the table fetched: the GEOID of each row
    j_tiger,    \* the boundary file of the data source: columns and GEOIDs
    j_cached,   \* the boundary file is in the cache directory
    j_call,     \* the call made
    j_out,      \* what the call returned
    j_raised,   \* the error the call raised, "" when none
    j_files     \* the output files written

jvars == <<j_pc, j_df, j_tiger, j_cached, j_call, j_out, j_raised, j_files>>

\* The rate limit of one CensusAPIClient under concurrent requests.
VARIABLES
    r_now,      \* time.time(), in tenths of a second
    r_last,     \* self._last_request_time
    r_pc,       \* per thread: "idle", "check", "sleep", "stamp", "send", "sent"
    r_wake,     \* per thread: when its time.sleep ends
    r_passed,   \* per thread: when it passed the rate-limit check
    r_sent      \* per thread: when its request was sent

rvars == <<r_now, r_last, r_pc, r_wake, r_passed, r_sent>>

vars == <<bvars, gvars, avars, tvars, vvars, jvars, rvars>>

\* ------------------------------------------------------- batch: the inputs

\* The registry of state FIPS codes, cut to its first MaxStates entries.
FIPS_CODES == SubSeq(<<"01", "02", "04", "05", "06", "08">>, 1, MaxStates)

\* The geography levels the request builder accepts.
geo_mapping ==
    {"state", "county", "tract", "block group", "place", "zcta",
     "congressional district"}

\* Levels a call is made with: each accepted level and one that is not.
Geographies == geo_mapping \cup {"blockgroup"}

\* Data products a call is made with: "pep" is not one fetch_batch_states knows.
DataProducts == {"acs5", "acs1", "decennial", "pep"}

Years == {2020, 2022}

NoFuture == [done |-> FALSE, exception |-> "", result |-> <<>>]

\* ------------------------------------------------- batch: request and table

\* _build_params: the request is restricted to the state only at these levels.
StateFiltered(geo, state) ==
    state # "" /\ geo \in {"county", "tract", "block group"}

\* The rows the data source returns for a request: one per state it covers.
ResponseRows(geo, state) ==
    IF StateFiltered(geo, state)
    THEN <<[state |-> state]>>
    ELSE [i \in DOMAIN FIPS_CODES |-> [state |-> FIPS_CODES[i]]]

\* _create_geoid reads the component columns at these levels only.
NeedsStateColumn(geo) == geo \in {"state", "county", "tract", "block group"}

\* _fetch_single_state: the error of a data product it has no branch for.
ProductError(product) ==
    IF product \in {"acs5", "acs1", "decennial"}
    THEN ""
    ELSE "ValueError: Unknown data product"

\* fetch_decennial: the error of a year that had no decennial census.
YearError(product, yr) ==
    IF product = "decennial" /\ yr \notin {2000, 2010, 2020}
    THEN "ValueError: Decennial Census year"
    ELSE ""

\* What a task raises before its request, "" when nothing.
EarlyError(product, yr) ==
    IF ProductError(product) # "" THEN ProductError(product) ELSE YearError(product, yr)

\* _build_for_clause
ForClauseError(geo) ==
    IF geo \in geo_mapping THEN "" ELSE "ValueError: Unsupported geography"

\* What the transport can answer.
Answers == {"TransportError", "DecodingError", "empty", "rows"}

\* The outcome of the request, response parsing and GEOID attachment of one
\* task, given the transport's answer.
Outcome(geo, state, answer) ==
    IF answer \in {"TransportError", "DecodingError"}
    THEN [done |-> TRUE, exception |-> answer, result |-> <<>>]
    ELSE IF answer = "empty"
    THEN IF NeedsStateColumn(geo)
         THEN [done |-> TRUE, exception |-> "KeyError: state", result |-> <<>>]
         ELSE [done |-> TRUE, exception |-> "", result |-> <<>>]
    ELSE [done |-> TRUE, exception |-> "", result |-> ResponseRows(geo, state)]

\* ------------------------------------------------------ batch: operations

Tasks == DOMAIN task

Running == {t \in Tasks : task[t] \in {"stamp", "request"}}

Succeeded == {t \in Tasks : future[t].done /\ future[t].exception = ""}

Failed == {t \in Tasks : future[t].done /\ future[t].exception # ""}

BatchInit ==
    /\ parallel_workers \in 1..MaxWorkers
    /\ geography \in Geographies
    /\ states \in {<<"*">>} \cup {SubSeq(FIPS_CODES, 1, n) : n \in 0..MaxStates}
    /\ year \in Years
    /\ data_product \in DataProducts
    /\ pc = "call"
    /\ futures = <<>>
    /\ task = <<>>
    /\ future = <<>>
    /\ last_request_time = 0
    /\ readers = {}
    /\ writers = {}
    /\ collected = {}
    /\ results = <<>>
    /\ log = {}
    /\ ret = [table |-> <<>>]
    /\ err = ""

\* fetch_batch_states up to the end of the dict comprehension: the wildcard
\* is expanded, the pool is made and one task per state is submitted.
Submit ==
    /\ pc = "call"
    /\ LET expanded == IF states = <<"*">> THEN FIPS_CODES ELSE states
       IN /\ states' = expanded
          /\ futures' = expanded
          /\ task' = [t \in DOMAIN expanded |-> "queued"]
          /\ future' = [t \in DOMAIN expanded |-> NoFuture]
    /\ pc' = "collect"
    /\ UNCHANGED <<parallel_workers, geography, year, data_product,
                   last_request_time, readers, writers, collected, results,
                   log, ret, err>>

\* WorkerFree without the bound of the pool.
WorkerFreeUnbounded(t) ==
    \A u \in Tasks : task[u] = "queued" => t <= u

\* A worker is free for the task at the head of the queue.
WorkerFree(t) ==
    /\ Cardinality(Running) < parallel_workers
    /\ \A u \in Tasks : task[u] = "queued" => t <= u

\* A worker takes task t from the queue and runs it up to the read of
\* _last_request_time in _apply_rate_limit; a task that fails before its
\* request ends here.
Start(t) ==
    /\ task[t] = "queued"
    /\ WorkerFree(t)
    /\ IF EarlyError(data_product, year) # ""
       THEN /\ task' = [task EXCEPT ![t] = "finished"]
            /\ future' = [future EXCEPT ![t] =
                 [done |-> TRUE, exception |-> EarlyError(data_product, year),
                  result |-> <<>>]]
            /\ UNCHANGED readers
       ELSE /\ task' = [task EXCEPT ![t] = "stamp"]
            /\ readers' = readers \cup {t}
            /\ UNCHANGED future
    /\ UNCHANGED <<parallel_workers, geography, states, year, data_product, pc,
                   futures, last_request_time, writers, collected, results,
                   log, ret, err>>

\* Task t sleeps as its read told it to and writes _last_request_time.
Stamp(t) ==
    /\ task[t] = "stamp"
    /\ last_request_time' = t
    /\ writers' = writers \cup {t}
    /\ task' = [task EXCEPT ![t] = "request"]
    /\ UNCHANGED <<parallel_workers, geography, states, year, data_product, pc,
                   futures, future, readers, collected, results, log, ret, err>>

\* Task t builds its parameters, sends the request, parses the response and
\* attaches the GEOID; the future then holds the table or the exception.
Request(t) ==
    /\ task[t] = "request"
    /\ task' = [task EXCEPT ![t] = "finished"]
    /\ IF ForClauseError(geography) # ""
       THEN future' = [future EXCEPT ![t] =
              [done |-> TRUE, exception |-> ForClauseError(geography),
               result |-> <<>>]]
       ELSE \E answer \in Answers :
              future' = [future EXCEPT ![t] = Outcome(geography, futures[t], answer)]
    /\ UNCHANGED <<parallel_workers, geography, states, year, data_product, pc,
                   futures, last_request_time, readers, writers, collected,
                   results, log, ret, err>>

\* Collect without the except clause: the exception of a future leaves the
\* loop and the call.
CollectNoCatch(t) ==
    /\ pc = "collect"
    /\ t \in Tasks \ collected
    /\ future[t].done
    /\ collected' = collected \cup {t}
    /\ IF future[t].exception = ""
       THEN /\ results' = Append(results, future[t].result)
            /\ log' = log \cup {[level |-> "info", state |-> futures[t], cause |-> ""]}
            /\ UNCHANGED <<pc, err>>
       ELSE /\ pc' = "raised"
            /\ err' = future[t].exception
            /\ UNCHANGED <<results, log>>
    /\ UNCHANGED <<parallel_workers, geography, states, year, data_product,
                   futures, task, future, last_request_time, readers, writers,
                   ret>>

\* Collect with an except clause that logs nothing.
CollectSilent(t) ==
    /\ pc = "collect"
    /\ t \in Tasks \ collected
    /\ future[t].done
    /\ collected' = collected \cup {t}
    /\ IF future[t].exception = ""
       THEN /\ results' = Append(results, future[t].result)
            /\ log' = log \cup {[level |-> "info", state |-> futures[t], cause |-> ""]}
       ELSE UNCHANGED <<results, log>>
    /\ UNCHANGED <<parallel_workers, geography, states, year, data_product, pc,
                   futures, task, future, last_request_time, readers, writers,
                   ret, err>>

\* One round of the as_completed loop: the result of a finished future is
\* appended, its exception is logged with the state.
Collect(t) ==
    /\ pc = "collect"
    /\ t \in Tasks \ collected
    /\ future[t].done
    /\ collected' = collected \cup {t}
    /\ IF future[t].exception = ""
       THEN /\ results' = Append(results, future[t].result)
            /\ log' = log \cup {[level |-> "info", state |-> futures[t], cause |-> ""]}
       ELSE /\ results' = results
            /\ log' = log \cup {[level |-> "error", state |-> futures[t],
                                 cause |-> future[t].exception]}
    /\ UNCHANGED <<parallel_workers, geography, states, year, data_product, pc,
                   futures, task, future, last_request_time, readers, writers,
                   ret, err>>

\* AllCompleted of a loop left after the first future.
AnyCompleted == collected # {} \/ Tasks = {}

\* as_completed has yielded every future.
AllCompleted == collected = Tasks

RECURSIVE Concat(_)
\* pd.concat(results, ignore_index=True) of a non-empty list
Concat(tables) ==
    IF tables = <<>> THEN <<>> ELSE Head(tables) \o Concat(Tail(tables))

\* The pool is left and the results are concatenated; pd.concat raises on an
\* empty list.
Merge ==
    /\ pc = "collect"
    /\ AllCompleted
    /\ IF results = <<>>
       THEN /\ pc' = "raised"
            /\ err' = "ValueError: No objects to concatenate"
            /\ UNCHANGED ret
       ELSE /\ pc' = "returned"
            /\ ret' = [table |-> Concat(results)]
            /\ UNCHANGED err
    /\ UNCHANGED <<parallel_workers, geography, states, year, data_product,
                   futures, task, future, last_request_time, readers, writers,
                   collected, results, log>>

\* The calling thread is not in fetch_batch_states.
BatchIdle ==
    /\ parallel_workers = 1
    /\ geography = "state"
    /\ states = <<>>
    /\ year = 2022
    /\ data_product = "acs5"
    /\ pc = "idle"
    /\ futures = <<>>
    /\ task = <<>>
    /\ future = <<>>
    /\ last_request_time = 0
    /\ readers = {}
    /\ writers = {}
    /\ collected = {}
    /\ results = <<>>
    /\ log = {}
    /\ ret = [table |-> <<>>]
    /\ err = ""

\* ---------------------------------------------------------------- GEOID

\* Python's None among the component strings.
None == <<"None">>

Digits == {"0", "1"}

\* The fixed widths of the components (build_geoid's docstring, parse_geoid's
\* offsets).
StateWidth == 2
CountyWidth == 3
TractWidth == 6
BlockGroupWidth == 1

Width(k) ==
    CASE k = "state" -> StateWidth
      [] k = "county" -> CountyWidth
      [] k = "tract" -> TractWidth
      [] k = "block_group" -> BlockGroupWidth

\* The strings of length n over a set of characters.
Strings(chars, n) == [1..n -> chars]

Max(a, b) == IF a >= b THEN a ELSE b

\* Strings of "0" whose length is within MaxSlack of the width of k.
Skewed(k) ==
    UNION {Strings({"0"}, n) : n \in Max(0, Width(k) - MaxSlack)..(Width(k) + MaxSlack)}

\* Python's truth value of an optional string.
Truthy(x) == x # None /\ x # <<>>

\* geography.build_geoid
build_geoid(state, county, tract, block_group) ==
    LET g1 == state
        g2 == IF Truthy(county) THEN g1 \o county ELSE g1
        g3 == IF Truthy(tract) THEN g2 \o tract ELSE g2
        g4 == IF Truthy(block_group) THEN g3 \o block_group ELSE g3
    IN g4

\* parse_geoid with the tract slice starting one character late.
parse_geoid_late_tract(geoid) ==
    LET keys == {k \in {"state", "county", "tract", "block_group"} :
                    \/ k = "state" /\ Len(geoid) >= 2
                    \/ k = "county" /\ Len(geoid) >= 5
                    \/ k = "tract" /\ Len(geoid) >= 11
                    \/ k = "block_group" /\ Len(geoid) >= 12}
    IN [k \in keys |->
          CASE k = "state" -> SubSeq(geoid, 1, 2)
            [] k = "county" -> SubSeq(geoid, 3, 5)
            [] k = "tract" -> SubSeq(geoid, 7, 11)
            [] k = "block_group" -> SubSeq(geoid, 12, 12)]

\* geography.parse_geoid: the dict of the components the string is long
\* enough for.
parse_geoid(geoid) ==
    LET keys == {k \in {"state", "county", "tract", "block_group"} :
                    \/ k = "state" /\ Len(geoid) >= 2
                    \/ k = "county" /\ Len(geoid) >= 5
                    \/ k = "tract" /\ Len(geoid) >= 11
                    \/ k = "block_group" /\ Len(geoid) >= 12}
    IN [k \in keys |->
          CASE k = "state" -> SubSeq(geoid, 1, 2)
            [] k = "county" -> SubSeq(geoid, 3, 5)
            [] k = "tract" -> SubSeq(geoid, 6, 11)
            [] k = "block_group" -> SubSeq(geoid, 12, 12)]

\* The columns _create_geoid reads at a level, in order; none at the levels
\* it has no branch for.
GeoidColumns(geo) ==
    CASE geo = "state" -> <<"state">>
      [] geo = "county" -> <<"state", "county">>
      [] geo = "tract" -> <<"state", "county", "tract">>
      [] geo = "block group" -> <<"state", "county", "tract", "block_group">>
      [] OTHER -> <<>>

RECURSIVE JoinColumns(_, _)
JoinColumns(row, cols) ==
    IF cols = <<>> THEN <<>> ELSE row[Head(cols)] \o JoinColumns(row, Tail(cols))

\* CensusPipeline._create_geoid on one row: the GEOID column it sets, the
\* KeyError of a column the row lacks, or no GEOID column at all.
create_geoid(row, geo) ==
    IF GeoidColumns(geo) = <<>>
    THEN [raised |-> "", has_geoid |-> FALSE, geoid |-> <<>>]
    ELSE IF \E i \in DOMAIN GeoidColumns(geo) : row[GeoidColumns(geo)[i]] = None
    THEN [raised |-> "KeyError", has_geoid |-> FALSE, geoid |-> <<>>]
    ELSE [raised |-> "", has_geoid |-> TRUE,
          geoid |-> JoinColumns(row, GeoidColumns(geo))]

Optional(S) == S \cup {None}

\* The components given: every string of digits of the fixed width, or
\* strings of other lengths, each but the state possibly None.
GeoidArgs ==
    [state : Strings(Digits, StateWidth),
     county : Optional(Strings(Digits, CountyWidth)),
     tract : Optional(Strings(Digits, TractWidth)),
     block_group : Optional(Strings(Digits, BlockGroupWidth))]
    \cup
    [state : Skewed("state"),
     county : Optional(Skewed("county")),
     tract : Optional(Skewed("tract")),
     block_group : Optional(Skewed("block_group"))]

GeoidInit ==
    /\ g_pc = "args"
    /\ g_args \in GeoidArgs
    /\ g_op = "none"
    /\ g_raised = ""
    /\ g_geoid = <<>>
    /\ g_parsed = <<>>

GeoidIdle ==
    /\ g_pc = "idle"
    /\ g_args = [state |-> <<>>, county |-> None, tract |-> None, block_group |-> None]
    /\ g_op = "none"
    /\ g_raised = ""
    /\ g_geoid = <<>>
    /\ g_parsed = <<>>

\* build_geoid is called with the components.
BuildGeoid ==
    /\ g_pc = "args"
    /\ g_op' = "build_geoid"
    /\ g_raised' = ""
    /\ g_geoid' = build_geoid(g_args.state, g_args.county, g_args.tract,
                              g_args.block_group)
    /\ g_pc' = "built"
    /\ UNCHANGED <<g_args, g_parsed>>

\* _create_geoid is called on a table whose row holds the components.
CreateGeoid(geo) ==
    /\ g_pc = "args"
    /\ g_op' = "_create_geoid"
    /\ g_raised' = create_geoid(g_args, geo).raised
    /\ g_geoid' = create_geoid(g_args, geo).geoid
    /\ g_pc' = IF create_geoid(g_args, geo).has_geoid THEN "built" ELSE "no geoid"
    /\ UNCHANGED <<g_args, g_parsed>>

\* parse_geoid is called with the GEOID built.
ParseGeoid ==
    /\ g_pc = "built"
    /\ g_parsed' = parse_geoid(g_geoid)
    /\ g_pc' = "parsed"
    /\ UNCHANGED <<g_args, g_op, g_raised, g_geoid>>

\* -------------------------------------------------------------- assembly

\* DataTransformer.MISSING_CODES: the sentinel integers of the data source.
MISSING_CODES == {-666666666, -999999999, -888888888, -222222222, -333333333}

\* The cells of a DataFrame: a string, a number, or NaN (the missing marker).
Str(chars) == [t |-> "str", s |-> chars, n |-> 0]
Num(v) == [t |-> "num", s |-> <<>>, n |-> v]
NaN == [t |-> "nan", s |-> <<>>, n |-> 0]

\* pd.DataFrame(): no column, no row.
EmptyFrame == [columns |-> <<>>, rows |-> <<>>]

DigitChars == <<"0", "1", "2", "3", "4", "5", "6", "7", "8", "9">>

\* The value of a digit character.
DigitValue(c) == (CHOOSE i \in DOMAIN DigitChars : DigitChars[i] = c) - 1

IsDigit(c) == \E i \in DOMAIN DigitChars : DigitChars[i] = c

RECURSIVE FormatNat(_)
\* The decimal digits of a natural number.
FormatNat(v) ==
    IF v < 10 THEN <<DigitChars[v + 1]>>
    ELSE Append(FormatNat(v \div 10), DigitChars[(v % 10) + 1])

\* The string the data source sends for an integer.
Format(v) == IF v < 0 THEN <<"-">> \o FormatNat(-v) ELSE FormatNat(v)

RECURSIVE DigitsValue(_, _)
\* The number a string of digits denotes, after the digits read so far.
DigitsValue(chars, acc) ==
    IF chars = <<>> THEN acc
    ELSE DigitsValue(Tail(chars), 10 * acc + DigitValue(Head(chars)))

\* The string is an integer literal: digits, after a sign or none.
IsIntegerLiteral(chars) ==
    LET body == IF chars # <<>> /\ Head(chars) \in {"-", "+"} THEN Tail(chars) ELSE chars
    IN body # <<>> /\ \A i \in DOMAIN body : IsDigit(body[i])

\* pd.to_numeric of one cell with errors="ignore": a string that is no number
\* stays the string it is.
to_numeric_ignore(chars) ==
    IF IsIntegerLiteral(chars)
    THEN IF Head(chars) = "-" THEN Num(-DigitsValue(Tail(chars), 0))
         ELSE IF Head(chars) = "+" THEN Num(DigitsValue(Tail(chars), 0))
         ELSE Num(DigitsValue(chars, 0))
    ELSE Str(chars)

\* pd.to_numeric(..., errors="coerce") of one cell: the number of an integer
\* literal, NaN for any other string.
to_numeric(chars) ==
    IF IsIntegerLiteral(chars)
    THEN IF Head(chars) = "-" THEN Num(-DigitsValue(Tail(chars), 0))
         ELSE IF Head(chars) = "+" THEN Num(DigitsValue(Tail(chars), 0))
         ELSE Num(DigitsValue(chars, 0))
    ELSE NaN

Range(f) == {f[x] : x \in DOMAIN f}

\* The position of a column name in a list of distinct names.
IndexOf(names, c) == CHOOSE i \in DOMAIN names : names[i] = c

\* df.rename(columns=var_dict) of the header.
RenameColumns(headers, var_dict) ==
    [i \in DOMAIN headers |->
        IF headers[i] \in DOMAIN var_dict THEN var_dict[headers[i]] ELSE headers[i]]

\* _parse_api_response without the conversion of the variable columns.
parse_api_response_no_convert(response, var_dict) ==
    IF response = <<>>
    THEN EmptyFrame
    ELSE LET headers == Head(response)
             data == Tail(response)
             columns == RenameColumns(headers, var_dict)
         IN [columns |-> columns,
             rows |-> [r \in DOMAIN data |->
                        [c \in Range(columns) |-> Str(data[r][IndexOf(columns, c)])]]]

\* CensusPipeline._parse_api_response: the frame of the data rows under the
\* renamed header, the columns of the friendly names converted to numbers.
parse_api_response(response, var_dict) ==
    IF response = <<>>
    THEN EmptyFrame
    ELSE LET headers == Head(response)
             data == Tail(response)
             columns == RenameColumns(headers, var_dict)
         IN [columns |-> columns,
             rows |-> [r \in DOMAIN data |->
                        [c \in Range(columns) |->
                           IF c \in Range(var_dict)
                           THEN to_numeric(data[r][IndexOf(columns, c)])
                           ELSE Str(data[r][IndexOf(columns, c)])]]]

\* The name of a component column in a response.
ColumnName(k) == IF k = "block_group" THEN "block group" ELSE k

\* The columns _create_geoid concatenates at a level.
FrameGeoidColumns(geo) ==
    [i \in DOMAIN GeoidColumns(geo) |-> ColumnName(GeoidColumns(geo)[i])]

RECURSIVE JoinCells(_, _)
\* The concatenation of the string cells of a row, column by column.
JoinCells(row, cols) ==
    IF cols = <<>> THEN <<>> ELSE row[Head(cols)].s \o JoinCells(row, Tail(cols))

\* df with the column GEOID set row by row.
WithGeoid(df, cols) ==
    [columns |-> IF "GEOID" \in Range(df.columns) THEN df.columns
                 ELSE Append(df.columns, "GEOID"),
     rows |-> [r \in DOMAIN df.rows |->
                [c \in DOMAIN df.rows[r] \cup {"GEOID"} |->
                    IF c = "GEOID" THEN Str(JoinCells(df.rows[r], cols))
                    ELSE df.rows[r][c]]]]

\* CensusPipeline._create_geoid on a frame: the KeyError of the first
\* component column the frame lacks, else the frame with GEOID; the frame as
\* it is at a level with no branch.
create_geoid_frame(df, geo) ==
    LET cols == FrameGeoidColumns(geo)
        lacking == {i \in DOMAIN cols : cols[i] \notin Range(df.columns)}
    IN IF cols = <<>>
       THEN [raised |-> "", df |-> df]
       ELSE IF lacking # {}
       THEN [raised |-> "KeyError", df |-> df]
       ELSE [raised |-> "", df |-> WithGeoid(df, cols)]

\* ---- the responses given to the assembly

\* The variable code requested.
Code == "B01003_001E"

\* var_dict of a mapping of the code to a friendly name, and of a list of
\* codes (each code its own name).
VarDicts == {[c \in {Code} |-> "total_population"], [c \in {Code} |-> c]}

\* The levels a response is assembled at.
AssemblyLevels == geo_mapping

\* The geography columns the data source sends at a level.
GeoHeaders(geo) ==
    CASE geo = "place" -> <<"state", "place">>
      [] geo = "zcta" -> <<"zip code tabulation area">>
      [] geo = "congressional district" -> <<"state", "congressional district">>
      [] OTHER -> FrameGeoidColumns(geo)

\* A code the data source may send that var_dict does not map.
UnmappedCode == "B19013_001E"

\* A component of the right width, as the data source sends it.
RightCell(col) ==
    CASE col = "state" -> <<"3", "9">>
      [] col = "county" -> <<"0", "0", "1">>
      [] col = "tract" -> <<"9", "5", "0", "1", "0", "0">>
      [] col = "block group" -> <<"1">>
      [] col = "place" -> <<"0", "1", "0", "0", "0">>
      [] col = "zip code tabulation area" -> <<"4", "3", "0", "0", "1">>
      [] col = "congressional district" -> <<"0", "2">>

\* The component one character short.
ShortCell(col) == SubSeq(RightCell(col), 1, Len(RightCell(col)) - 1)

\* What the data source holds for the variable in one row: an integer, or
\* text that is no number.
IntValue(v) == [kind |-> "int", n |-> v, s |-> <<>>]
TextValue(chars) == [kind |-> "text", n |-> 0, s |-> chars]

DataValues ==
    {IntValue(v) : v \in {0, 41780} \cup MISSING_CODES}
    \cup {TextValue(<<"x">>), TextValue(<<"-">>)}

\* The cell the data source sends for a value.
Render(d) == IF d.kind = "int" THEN Format(d.n) ELSE d.s

\* The raw response: the header row, then one row per value; short[r] are
\* the geography columns of row r sent one character short; extra is the
\* header of the unmapped code when the data source sends one, or empty.
Response(geo, data, short, extra) ==
    <<(<<"NAME", Code>> \o GeoHeaders(geo) \o extra)>>
    \o [r \in DOMAIN data |->
          <<<<"F", "o", "o">>, Render(data[r])>>
          \o [i \in DOMAIN GeoHeaders(geo) |->
                IF GeoHeaders(geo)[i] \in short[r]
                THEN ShortCell(GeoHeaders(geo)[i])
                ELSE RightCell(GeoHeaders(geo)[i])]
          \o [i \in DOMAIN extra |-> Format(50)]]

AssembleInit ==
    /\ a_pc = "response"
    /\ a_geography \in AssemblyLevels
    /\ a_var_dict \in VarDicts
    /\ \/ a_data = <<>> /\ a_response = <<>>
       \/ \E n \in 0..MaxRows :
            \E data \in [1..n -> DataValues] :
              \E short \in [1..n -> SUBSET Range(GeoHeaders(a_geography))] :
                /\ \/ \A r \in 1..n : short[r] = {}
                   \/ \A r \in 1..n : data[r] = IntValue(41780)
                /\ a_data = data
                /\ \E extra \in {<<>>, <<UnmappedCode>>} :
                     a_response = Response(a_geography, data, short, extra)
    /\ a_df = EmptyFrame
    /\ a_raised = ""

AssembleIdle ==
    /\ a_pc = "idle"
    /\ a_geography = "state"
    /\ a_var_dict = [c \in {Code} |-> c]
    /\ a_data = <<>>
    /\ a_response = <<>>
    /\ a_df = EmptyFrame
    /\ a_raised = ""

\* A fetch converts the raw response: df = self._parse_api_response(...).
ParseResponse ==
    /\ a_pc = "response"
    /\ a_df' = parse_api_response(a_response, a_var_dict)
    /\ a_pc' = "parsed"
    /\ UNCHANGED <<a_data, a_response, a_var_dict, a_geography, a_raised>>

\* The fetch attaches the GEOID and returns: df = self._create_geoid(...).
AttachGeoid ==
    /\ a_pc = "parsed"
    /\ a_raised' = create_geoid_frame(a_df, a_geography).raised
    /\ a_df' = create_geoid_frame(a_df, a_geography).df
    /\ a_pc' = IF create_geoid_frame(a_df, a_geography).raised = ""
               THEN "assembled" ELSE "raised"
    /\ UNCHANGED <<a_data, a_response, a_var_dict, a_geography>>

\* ---------------------------------------------------------- transformers

TransformIdle ==
    /\ t_pc = "idle"
    /\ t_df = EmptyFrame
    /\ t_call = [op |-> "none"]
    /\ t_out = EmptyFrame
    /\ t_raised = ""
    /\ t_again = EmptyFrame

\* ---- clean_missing_values

\* df.replace(code, np.nan), were it to replace every number not above the
\* code.
replace_not_above(df, code) ==
    [columns |-> df.columns,
     rows |-> [r \in DOMAIN df.rows |->
                [c \in DOMAIN df.rows[r] |->
                    IF df.rows[r][c].t = "num" /\ df.rows[r][c].n <= code
                    THEN NaN ELSE df.rows[r][c]]]]

\* df.replace(code, np.nan): every cell equal to the number code becomes NaN.
replace(df, code) ==
    [columns |-> df.columns,
     rows |-> [r \in DOMAIN df.rows |->
                [c \in DOMAIN df.rows[r] |->
                    IF df.rows[r][c].t = "num" /\ df.rows[r][c].n = code
                    THEN NaN ELSE df.rows[r][c]]]]

RECURSIVE replace_codes(_, _)
\* for code in self.MISSING_CODES.keys(): df = df.replace(code, np.nan)
replace_codes(df, codes) ==
    IF codes = {} THEN df
    ELSE LET code == CHOOSE c \in codes : TRUE
         IN replace_codes(replace(df, code), codes \ {code})

\* fill_value=None, the default.
NoValue == [t |-> "none", s |-> <<>>, n |-> 0]

\* df.fillna(fill_value): ValueError for no value, else every NaN cell
\* becomes the value.
fillna(df, fill_value) ==
    IF fill_value = NoValue
    THEN [raised |-> "ValueError", df |-> df]
    ELSE [raised |-> "",
          df |-> [columns |-> df.columns,
                  rows |-> [r \in DOMAIN df.rows |->
                             [c \in DOMAIN df.rows[r] |->
                                 IF df.rows[r][c] = NaN THEN fill_value
                                 ELSE df.rows[r][c]]]]]

\* df.dropna(): the rows with no NaN cell.
dropna(df) ==
    LET complete(row) == \A c \in DOMAIN row : row[c] # NaN
    IN [columns |-> df.columns, rows |-> SelectSeq(df.rows, complete)]

\* clean_missing_values, were it to fill before it replaces the codes.
clean_missing_values_fill_first(df, strategy, fill_value) ==
    IF strategy = "fill"
    THEN IF fillna(df, fill_value).raised # ""
         THEN fillna(df, fill_value)
         ELSE [raised |-> "",
               df |-> replace_codes(fillna(df, fill_value).df, MISSING_CODES)]
    ELSE IF strategy = "drop"
    THEN [raised |-> "", df |-> replace_codes(dropna(df), MISSING_CODES)]
    ELSE [raised |-> "", df |-> replace_codes(df, MISSING_CODES)]

\* DataTransformer.clean_missing_values: the codes replaced by NaN, then the
\* NaN cells left (nan, or a strategy not known), filled, or their rows
\* dropped.
clean_missing_values(df, strategy, fill_value) ==
    LET replaced == replace_codes(df, MISSING_CODES)
    IN IF strategy = "fill" THEN fillna(replaced, fill_value)
       ELSE IF strategy = "drop" THEN [raised |-> "", df |-> dropna(replaced)]
       ELSE [raised |-> "", df |-> replaced]

\* The frames given to clean_missing_values: a string column and two numeric
\* columns; a holds codes, a number next to a code, NaN and plain numbers.
CleanColumns == <<"GEOID", "a", "b">>

CleanCells(c) ==
    CASE c = "GEOID" -> {Str(<<"3", "9">>), Str(Format(-666666666))}
      [] c = "a" -> {NaN, Num(0), Num(1), Num(-666666665)}
                      \cup {Num(code) : code \in MISSING_CODES}
      [] c = "b" -> {Num(1), Num(-999999999)}

CleanRows ==
    {row \in [Range(CleanColumns) -> UNION {CleanCells(c) : c \in Range(CleanColumns)}] :
        \A c \in Range(CleanColumns) : row[c] \in CleanCells(c)}

Strategies == {"nan", "fill", "drop", "mean"}

FillValues == {NoValue, Num(0), Num(-666666666)}

CleanInit ==
    /\ t_pc = "given"
    /\ \E n \in 0..MaxRows :
         \E rows \in [1..n -> CleanRows] :
           t_df = [columns |-> CleanColumns, rows |-> rows]
    /\ t_call = [op |-> "none"]
    /\ t_out = EmptyFrame
    /\ t_raised = ""
    /\ t_again = EmptyFrame

\* A call of clean_missing_values on the frame.
Clean(strategy, fill_value) ==
    /\ t_pc = "given"
    /\ t_call' = [op |-> "clean_missing_values", strategy |-> strategy,
                  fill_value |-> fill_value]
    /\ t_raised' = clean_missing_values(t_df, strategy, fill_value).raised
    /\ t_out' = clean_missing_values(t_df, strategy, fill_value).df
    /\ t_pc' = IF clean_missing_values(t_df, strategy, fill_value).raised = ""
               THEN "returned" ELSE "raised"
    /\ UNCHANGED <<t_df, t_again>>

\* The same call on the frame the first call returned.
CleanAgain ==
    /\ t_pc = "returned"
    /\ t_call.op = "clean_missing_values"
    /\ clean_missing_values(t_out, t_call.strategy, t_call.fill_value).raised = ""
    /\ t_again' = clean_missing_values(t_out, t_call.strategy, t_call.fill_value).df
    /\ t_pc' = "again"
    /\ UNCHANGED <<t_df, t_call, t_out, t_raised>>

\* ---- the numbers of a numeric column

\* The floating-point values of a numeric column: a finite number p/q in
\* lowest terms, NaN, or an infinity.  Rounding is not modelled.
Abs(x) == IF x < 0 THEN -x ELSE x

RECURSIVE GCD(_, _)
GCD(a, b) == IF b = 0 THEN a ELSE GCD(b, a % b)

Frac(p, q) ==
    LET g == GCD(Abs(p), Abs(q))
        sg == IF q < 0 THEN -1 ELSE 1
    IN [t |-> "num", p |-> (sg * p) \div g, q |-> (sg * q) \div g]

FInt(v) == [t |-> "num", p |-> v, q |-> 1]
FNaN == [t |-> "nan", p |-> 0, q |-> 1]
FInf == [t |-> "inf", p |-> 0, q |-> 1]
FNegInf == [t |-> "ninf", p |-> 0, q |-> 1]

\* x + y and x - y of finite or missing values.
FAdd(x, y) ==
    IF x.t # "num" \/ y.t # "num" THEN FNaN
    ELSE Frac(x.p * y.q + y.p * x.q, x.q * y.q)

FSub(x, y) ==
    IF x.t # "num" \/ y.t # "num" THEN FNaN
    ELSE Frac(x.p * y.q - y.p * x.q, x.q * y.q)

\* x / y of finite or missing values, under np.errstate(ignore): 0/0 is NaN,
\* a non-zero number over 0 is an infinity of its sign.
FDiv(x, y) ==
    IF x.t # "num" \/ y.t # "num" THEN FNaN
    ELSE IF y.p = 0
    THEN IF x.p = 0 THEN FNaN ELSE IF x.p > 0 THEN FInf ELSE FNegInf
    ELSE Frac(x.p * y.q, x.q * y.p)

\* x * y, y finite: an infinity times 0 is NaN.
FMul(x, y) ==
    IF x.t = "nan" THEN FNaN
    ELSE IF x.t = "num" THEN Frac(x.p * y.p, x.q * y.q)
    ELSE IF y.p = 0 THEN FNaN
    ELSE IF (x.t = "inf") = (y.p > 0) THEN FInf ELSE FNegInf

\* The integers of the cells of a column that are not missing (skipna).
NonMissing(df, column) ==
    LET cells == [r \in DOMAIN df.rows |-> df.rows[r][column]]
        kept == SelectSeq(cells, LAMBDA cell : cell.t = "num")
    IN [i \in DOMAIN kept |-> kept[i].p]

RECURSIVE SeqSum(_)
SeqSum(xs) == IF xs = <<>> THEN 0 ELSE Head(xs) + SeqSum(Tail(xs))

SeqMin(xs) == CHOOSE x \in Range(xs) : \A y \in Range(xs) : x <= y
SeqMax(xs) == CHOOSE x \in Range(xs) : \A y \in Range(xs) : x >= y

RECURSIVE Sorted(_)
\* The values in ascending order.
Sorted(xs) ==
    IF xs = <<>> THEN <<>>
    ELSE LET i == CHOOSE i \in DOMAIN xs : xs[i] = SeqMin(xs)
         IN <<xs[i]>> \o Sorted(SubSeq(xs, 1, i - 1) \o SubSeq(xs, i + 1, Len(xs)))

\* values.min(), values.max(), values.mean(): NaN of no value.
min(xs) == IF xs = <<>> THEN FNaN ELSE FInt(SeqMin(xs))
max(xs) == IF xs = <<>> THEN FNaN ELSE FInt(SeqMax(xs))
mean(xs) == IF xs = <<>> THEN FNaN ELSE Frac(SeqSum(xs), Len(xs))

\* The square of values.std() (ddof=1): NaN of fewer than two values.
variance(xs) ==
    IF Len(xs) < 2 THEN FNaN
    ELSE Frac(Len(xs) * SeqSum([i \in DOMAIN xs |-> xs[i] * xs[i]])
                 - SeqSum(xs) * SeqSum(xs),
              Len(xs) * (Len(xs) - 1))

\* values.quantile(k/4), by linear interpolation between the order
\* statistics; values.median() is quantile(2/4).
quantile(xs, k) ==
    IF xs = <<>> THEN FNaN
    ELSE LET sorted == Sorted(xs)
             lo == ((Len(xs) - 1) * k) \div 4
             rem == ((Len(xs) - 1) * k) % 4
         IN IF rem = 0 THEN FInt(sorted[lo + 1])
            ELSE Frac(4 * sorted[lo + 1] + rem * (sorted[lo + 2] - sorted[lo + 1]), 4)

\* d / sqrt(v) for a finite d and a variance v: NaN for a missing operand or
\* 0/0, an infinity for a non-zero d over 0, else the root of d*d/v with the
\* sign of d.
FDivRoot(d, v) ==
    IF d.t # "num" \/ v.t # "num" THEN FNaN
    ELSE IF v.p = 0
    THEN IF d.p = 0 THEN FNaN ELSE IF d.p > 0 THEN FInf ELSE FNegInf
    ELSE IF d.p = 0 THEN FInt(0)
    ELSE [t |-> IF d.p > 0 THEN "root" ELSE "nroot",
          p |-> Frac(d.p * d.p * v.q, d.q * d.q * v.p).p,
          q |-> Frac(d.p * d.p * v.q, d.q * d.q * v.p).q]

\* df[name] = cells.
AddColumn(df, name, cells) ==
    [columns |-> IF name \in Range(df.columns) THEN df.columns
                 ELSE Append(df.columns, name),
     rows |-> [r \in DOMAIN df.rows |->
                [c \in DOMAIN df.rows[r] \cup {name} |->
                    IF c = name THEN cells[r] ELSE df.rows[r][c]]]]

\* ---- calculate_rates

\* rate.replace([np.inf, -np.inf], value)
replace_inf(x, value) == IF x.t \in {"inf", "ninf"} THEN value ELSE x

\* DataTransformer.calculate_rates: the cells of the rate column.
rate(df, numerator, denominator, per, handle_zero) ==
    [r \in DOMAIN df.rows |->
        LET raw == FMul(FDiv(df.rows[r][numerator], df.rows[r][denominator]), FInt(per))
        IN IF handle_zero = "nan" THEN replace_inf(raw, FNaN)
           ELSE IF handle_zero = "zero" THEN replace_inf(raw, FInt(0))
           ELSE raw]

calculate_rates(df, numerator, denominator, rate_name, per, handle_zero) ==
    AddColumn(df, rate_name, rate(df, numerator, denominator, per, handle_zero))

\* ---- normalize_column

\* f"{column}_normalized"
Normalized(column) ==
    CASE column = "a" -> "a_normalized"
      [] column = "b" -> "b_normalized"

\* The square of the denominator of a method for a column of values: of
\* max - min, of std, of q3 - q1.  It is zero exactly when the denominator is.
denominator_square(xs, method) ==
    CASE method = "minmax" -> FMul(FSub(max(xs), min(xs)), FSub(max(xs), min(xs)))
      [] method = "zscore" -> variance(xs)
      [] method = "robust" ->
            FMul(FSub(quantile(xs, 3), quantile(xs, 1)),
                 FSub(quantile(xs, 3), quantile(xs, 1)))

\* DataTransformer.normalize_column: the frame with the normalized column; no
\* method checks its denominator.
normalize_column(df, column, method) ==
    LET xs == NonMissing(df, column)
        value(r) == df.rows[r][column]
    IN CASE method = "minmax" ->
              AddColumn(df, Normalized(column),
                  [r \in DOMAIN df.rows |->
                      FDiv(FSub(value(r), min(xs)), FSub(max(xs), min(xs)))])
         [] method = "zscore" ->
              AddColumn(df, Normalized(column),
                  [r \in DOMAIN df.rows |->
                      FDivRoot(FSub(value(r), mean(xs)), variance(xs))])
         [] method = "robust" ->
              AddColumn(df, Normalized(column),
                  [r \in DOMAIN df.rows |->
                      FDiv(FSub(value(r), quantile(xs, 2)),
                           FSub(quantile(xs, 3), quantile(xs, 1)))])
         [] OTHER -> df

\* ---- create_index

RECURSIVE normalize_components(_, _)
\* for col in components.keys(): df = self.normalize_column(df, col, "minmax")
normalize_components(df, cols) ==
    IF cols = {} THEN df
    ELSE LET col == CHOOSE c \in cols : TRUE
         IN normalize_components(normalize_column(df, col, "minmax"), cols \ {col})

RECURSIVE total(_, _)
\* sum(components.values())
total(components, cols) ==
    IF cols = {} THEN 0
    ELSE LET col == CHOOSE c \in cols : TRUE
         IN components[col] + total(components, cols \ {col})

RECURSIVE weighted_sum(_, _, _, _, _)
\* index_values += df[col_use] * (weight / total_weight), column by column.
weighted_sum(row, components, cols, normalize, total_weight) ==
    IF cols = {} THEN FInt(0)
    ELSE LET col == CHOOSE c \in cols : TRUE
             col_use == IF normalize THEN Normalized(col) ELSE col
         IN FAdd(FMul(row[col_use], Frac(components[col], total_weight)),
                 weighted_sum(row, components, cols \ {col}, normalize, total_weight))

\* DataTransformer.create_index: the index column of zeros for no component,
\* ZeroDivisionError for components of total weight 0, else the weighted sum.
create_index(df, components, index_name, normalize) ==
    LET cols == DOMAIN components
        frame == IF normalize THEN normalize_components(df, cols) ELSE df
        total_weight == total(components, cols)
    IN IF cols # {} /\ total_weight = 0
       THEN [raised |-> "ZeroDivisionError", df |-> df]
       ELSE [raised |-> "",
             df |-> AddColumn(frame, index_name,
                       [r \in DOMAIN frame.rows |->
                           weighted_sum(frame.rows[r], components, cols,
                                        normalize, total_weight)])]

\* ---- the calls of the derived metrics

MetricColumns == <<"a", "b">>

MetricCells == {FNaN, FInt(0), FInt(1), FInt(-2)}

HandleZero == {"nan", "zero", "inf"}

Pers == {100, 1000}

Methods == {"minmax", "zscore", "robust"}

Weights == {-1, 0, 1}

\* components: weights of the columns of a subset of the frame's columns.
Components == UNION {[cols -> Weights] : cols \in SUBSET Range(MetricColumns)}

MetricsInit ==
    /\ t_pc = "given"
    /\ \E n \in 0..MaxRows :
         \E rows \in [1..n -> [Range(MetricColumns) -> MetricCells]] :
           t_df = [columns |-> MetricColumns, rows |-> rows]
    /\ t_call = [op |-> "none"]
    /\ t_out = EmptyFrame
    /\ t_raised = ""
    /\ t_again = EmptyFrame

\* A call of calculate_rates on the frame.
Rates(numerator, denominator, per, handle_zero) ==
    /\ t_pc = "given"
    /\ t_call' = [op |-> "calculate_rates", numerator |-> numerator,
                  denominator |-> denominator, per |-> per,
                  handle_zero |-> handle_zero]
    /\ t_out' = calculate_rates(t_df, numerator, denominator, "rate", per, handle_zero)
    /\ t_pc' = "returned"
    /\ UNCHANGED <<t_df, t_raised, t_again>>

\* A call of normalize_column on the frame.
Normalize(column, method) ==
    /\ t_pc = "given"
    /\ t_call' = [op |-> "normalize_column", column |-> column, method |-> method]
    /\ t_out' = normalize_column(t_df, column, method)
    /\ t_pc' = "returned"
    /\ UNCHANGED <<t_df, t_raised, t_again>>

\* A call of create_index on the frame.
CreateIndex(components, normalize) ==
    /\ t_pc = "given"
    /\ t_call' = [op |-> "create_index", components |-> components,
                  normalize |-> normalize]
    /\ t_raised' = create_index(t_df, components, "index", normalize).raised
    /\ t_out' = create_index(t_df, components, "index", normalize).df
    /\ t_pc' = IF create_index(t_df, components, "index", normalize).raised = ""
               THEN "returned" ELSE "raised"
    /\ UNCHANGED <<t_df, t_again>>

\* ------------------------------------------------- margin-of-error codes

\* v.endswith("E")
endswith_E(code) == code # <<>> /\ code[Len(code)] = "E"

\* v.replace("E", "M"): every E of the code becomes M.
replace_E_M(code) ==
    [i \in DOMAIN code |-> IF code[i] = "E" THEN "M" ELSE code[i]]

\* moe_vars: for each code ending in E, the replaced code with the name
\* followed by _moe (of codes replaced alike, one gives the name).
moe_vars(var_dict) ==
    LET estimates == {v \in DOMAIN var_dict : endswith_E(v)}
    IN [m \in {replace_E_M(v) : v \in estimates} |->
          var_dict[CHOOSE v \in estimates : replace_E_M(v) = m]
             \o <<"_", "m", "o", "e">>]

\* d.update(e)
update(d, e) ==
    [k \in DOMAIN d \cup DOMAIN e |-> IF k \in DOMAIN e THEN e[k] ELSE d[k]]

\* fetch_acs5, "Normalize variables to dict": {v: v for v in variables} of a
\* list, the dict itself otherwise.
normalize_variables(variables) ==
    IF variables.kind = "list"
    THEN [v \in Range(variables.entries) |-> v]
    ELSE variables.entries

\* The codes and names a caller passes: an estimate, an estimate of a table
\* whose own name ends in E, a margin of error, an annotation.
Codes ==
    {<<"B", "1", "_", "1", "E">>, <<"B", "1", "E", "_", "1", "E">>,
     <<"B", "1", "_", "1", "M">>, <<"B", "1", "_", "1", "E", "A">>}

Names == {<<"p", "o", "p">>, <<"i", "n", "c">>}

\* The lists of at most two distinct codes, and the dicts of codes to names.
Variables ==
    {[kind |-> "list", entries |-> l] :
        l \in {<<>>} \cup {<<c>> : c \in Codes}
                \cup {l \in Codes \X Codes : l[1] # l[2]}}
    \cup {[kind |-> "dict", entries |-> d] :
            d \in UNION {[cs -> Names] : cs \in SUBSET Codes}}

MoeInit ==
    /\ v_pc = "call"
    /\ v_variables \in Variables
    /\ v_before = v_variables
    /\ v_include_moe \in BOOLEAN
    /\ v_aliased = FALSE
    /\ v_var_dict = <<>>

MoeIdle ==
    /\ v_pc = "idle"
    /\ v_variables = [kind |-> "list", entries |-> <<>>]
    /\ v_before = [kind |-> "list", entries |-> <<>>]
    /\ v_include_moe = FALSE
    /\ v_aliased = FALSE
    /\ v_var_dict = <<>>

\* fetch_acs5 up to the normalization: var_dict is a new dict for a list and
\* the caller's dict itself for a dict.
NormalizeVariables ==
    /\ v_pc = "call"
    /\ v_var_dict' = normalize_variables(v_variables)
    /\ v_aliased' = (v_variables.kind = "dict")
    /\ v_pc' = "normalized"
    /\ UNCHANGED <<v_variables, v_before, v_include_moe>>

\* fetch_acs5, "Add MOE variables if requested": var_dict.update(moe_vars)
\* changes the object var_dict names, the caller's dict when it is that.
ExpandMoe ==
    /\ v_pc = "normalized"
    /\ v_var_dict' = IF v_include_moe THEN update(v_var_dict, moe_vars(v_var_dict))
                     ELSE v_var_dict
    /\ v_variables' = IF v_include_moe /\ v_aliased
                      THEN [v_variables EXCEPT
                              !.entries = update(v_var_dict, moe_vars(v_var_dict))]
                      ELSE v_variables
    /\ v_pc' = "expanded"
    /\ UNCHANGED <<v_before, v_include_moe, v_aliased>>

\* ------------------------------------------------------- boundary files

BoundaryIdle ==
    /\ j_pc = "idle"
    /\ j_df = <<>>
    /\ j_tiger = [columns |-> {}, geoids |-> {}]
    /\ j_cached = FALSE
    /\ j_call = [op |-> "none"]
    /\ j_out = <<>>
    /\ j_raised = ""
    /\ j_files = {}

\* GeographyManager._build_tiger_url's file_codes: the levels with a
\* boundary-file convention.
file_codes == {"state", "county", "tract", "block group", "place", "zcta"}

\* CensusPipeline._get_tiger_geoid_col: mapping.get(geography, "GEOID").
get_tiger_geoid_col(geo) == IF geo = "state" THEN "STATEFP" ELSE "GEOID"

\* GeographyManager._build_tiger_url: the error it raises, "" when it builds
\* a URL; state is "" for None.
build_tiger_url(geo, state) ==
    IF geo \notin file_codes THEN "ValueError: Unsupported geography for TIGER"
    ELSE IF geo \in {"state", "county"} THEN ""
    ELSE IF state = "" THEN "ValueError: State required"
    ELSE ""

\* GeographyManager.get_tiger_boundaries: the cached file, else the file
\* downloaded from the URL and cached.
get_tiger_boundaries(geo, state, cached, tiger) ==
    IF cached THEN [raised |-> "", gdf |-> tiger, cached |-> TRUE]
    ELSE IF build_tiger_url(geo, state) # ""
    THEN [raised |-> build_tiger_url(geo, state), gdf |-> tiger, cached |-> FALSE]
    ELSE [raised |-> "", gdf |-> tiger, cached |-> TRUE]

\* A table: a DataFrame or a GeoDataFrame, its columns, and the GEOID and the
\* geometry of each row ("" where there is none).
Table(kind, columns, rows) == [kind |-> kind, columns |-> columns, rows |-> rows]

\* tiger_gdf[["GEOID", "geometry"]].merge(df, on="GEOID", how="right"): the
\* rows of df in their order, each with the geometry of the boundary of its
\* GEOID or with none.
merge_right(gdf, df) ==
    [i \in DOMAIN df.rows |->
        [GEOID |-> df.rows[i].GEOID,
         geometry |-> IF df.rows[i].GEOID \in gdf.geoids
                      THEN df.rows[i].GEOID ELSE ""]]

\* CensusPipeline.join_tiger_geometries: the boundaries are fetched with no
\* state, their id column is renamed to GEOID, and they are merged to df.
join_tiger_geometries(df, geo, cached, tiger) ==
    LET fetched == get_tiger_boundaries(geo, "", cached, tiger)
        geoid_col == get_tiger_geoid_col(geo)
        renamed == geoid_col \in fetched.gdf.columns
        twice == renamed /\ geoid_col # "GEOID" /\ "GEOID" \in fetched.gdf.columns
    IN IF fetched.raised # ""
       THEN [raised |-> fetched.raised, cached |-> fetched.cached, gdf |-> df]
       ELSE IF ~renamed /\ "GEOID" \notin fetched.gdf.columns
       THEN [raised |-> "KeyError: GEOID", cached |-> fetched.cached, gdf |-> df]
       ELSE IF twice
       THEN [raised |-> "ValueError: GEOID is not unique",
             cached |-> fetched.cached, gdf |-> df]
       ELSE [raised |-> "", cached |-> fetched.cached,
             gdf |-> Table("GeoDataFrame", df.columns \cup {"geometry"},
                           merge_right(fetched.gdf, df))]

\* format.lower(), of the format names given.
lower(format) ==
    CASE format = "CSV" -> "csv"
      [] format = "GeoJSON" -> "geojson"
      [] format = "GPKG" -> "gpkg"
      [] OTHER -> format

\* _to_geopackage, _to_geojson, _to_shapefile without the isinstance test.
to_file_unchecked(data, path, driver) ==
    [raised |-> "", files |-> {[path |-> path, driver |-> driver, geometry |-> TRUE]}]

\* _to_geopackage, _to_geojson, _to_shapefile: ValueError for data that is
\* no GeoDataFrame, else data.to_file(path, driver=...).
to_file(data, path, driver) ==
    IF data.kind # "GeoDataFrame"
    THEN [raised |-> "ValueError: requires GeoDataFrame with geometries", files |-> {}]
    ELSE [raised |-> "", files |-> {[path |-> path, driver |-> driver, geometry |-> TRUE]}]

\* DataExporter.export: the error raised and the files written.
export(data, output, format) ==
    LET format_lower == lower(format)
    IN CASE format_lower = "csv" ->
              [raised |-> "",
               files |-> {[path |-> output, driver |-> "csv", geometry |-> FALSE]}]
         [] format_lower \in {"geopackage", "gpkg"} -> to_file(data, output, "GPKG")
         [] format_lower = "geojson" -> to_file(data, output, "GeoJSON")
         [] format_lower \in {"shapefile", "shp"} -> to_file(data, output, "ESRI Shapefile")
         [] format_lower = "parquet" ->
              [raised |-> "",
               files |-> {[path |-> output, driver |-> "parquet",
                           geometry |-> data.kind = "GeoDataFrame"]}]
         [] OTHER -> [raised |-> "ValueError: Unsupported format", files |-> {}]

\* The GEOIDs of the rows fetched and of the boundaries of the data source.
Ids == {"g1", "g2"}

\* The boundary files the data source may hold: their columns (the id column
\* under one name or under both) and the GEOIDs of their boundaries.
TigerFiles ==
    {[columns |-> cols, geoids |-> ids] :
        cols \in {{"GEOID", "geometry"}, {"STATEFP", "geometry"},
                  {"STATEFP", "GEOID", "geometry"}},
        ids \in SUBSET {"g1", "g3"}}

Formats ==
    {"csv", "CSV", "geopackage", "gpkg", "GPKG", "geojson", "GeoJSON",
     "shapefile", "shp", "parquet", "xlsx"}

BoundaryInit ==
    /\ j_pc = "given"
    /\ \E n \in 0..MaxRows :
         \E ids \in [1..n -> Ids] :
           j_df = Table("DataFrame", {"GEOID"},
                        [i \in 1..n |-> [GEOID |-> ids[i], geometry |-> ""]])
    /\ j_tiger \in TigerFiles
    /\ j_cached \in BOOLEAN
    /\ j_call = [op |-> "none"]
    /\ j_out = <<>>
    /\ j_raised = ""
    /\ j_files = {}

\* A call of _get_tiger_geoid_col.
TigerGeoidCol(geo) ==
    /\ j_pc = "given"
    /\ j_call' = [op |-> "_get_tiger_geoid_col", geography |-> geo]
    /\ j_out' = get_tiger_geoid_col(geo)
    /\ j_pc' = "returned"
    /\ UNCHANGED <<j_df, j_tiger, j_cached, j_raised, j_files>>

\* A call of join_tiger_geometries on the table fetched.
Join(geo) ==
    /\ j_pc = "given"
    /\ j_call' = [op |-> "join_tiger_geometries", geography |-> geo,
                  cached |-> j_cached]
    /\ j_raised' = join_tiger_geometries(j_df, geo, j_cached, j_tiger).raised
    /\ j_cached' = join_tiger_geometries(j_df, geo, j_cached, j_tiger).cached
    /\ j_out' = join_tiger_geometries(j_df, geo, j_cached, j_tiger).gdf
    /\ j_pc' = IF join_tiger_geometries(j_df, geo, j_cached, j_tiger).raised = ""
               THEN "joined" ELSE "raised"
    /\ UNCHANGED <<j_df, j_tiger, j_files>>

\* A call of export, of the table fetched or of the table joined.
Export(format) ==
    /\ j_pc \in {"given", "joined"}
    /\ LET data == IF j_pc = "given" THEN j_df ELSE j_out
       IN /\ j_call' = [op |-> "export", format |-> format, data |-> data]
          /\ j_raised' = export(data, "out", format).raised
          /\ j_files' = j_files \cup export(data, "out", format).files
          /\ j_pc' = IF export(data, "out", format).raised = ""
                     THEN "returned" ELSE "raised"
    /\ UNCHANGED <<j_df, j_tiger, j_cached, j_out>>

\* ------------------------------------------------------------ rate limit

\* CensusAPIClient.RATE_LIMIT_DELAY = 0.5 seconds, in tenths of a second.
RATE_LIMIT_DELAY == 5

\* The worker threads that call _make_request on the one client.
Threads == 1..MaxWorkers

\* Every thread is about to call _apply_rate_limit; the client has sent
\* nothing yet (_last_request_time = 0) and the clock is well past 0.
RateInit ==
    /\ r_now = RATE_LIMIT_DELAY
    /\ r_last = 0
    /\ r_pc = [t \in Threads |-> "check"]
    /\ r_wake = [t \in Threads |-> 0]
    /\ r_passed = [t \in Threads |-> 0]
    /\ r_sent = [t \in Threads |-> 0]

\* _apply_rate_limit: elapsed = time.time() - self._last_request_time, and
\* the sleep started when elapsed is below the delay.
CheckElapsed(t) ==
    /\ r_pc[t] = "check"
    /\ LET elapsed == r_now - r_last
       IN IF elapsed < RATE_LIMIT_DELAY
          THEN /\ r_pc' = [r_pc EXCEPT ![t] = "sleep"]
               /\ r_wake' = [r_wake EXCEPT ![t] = r_now + (RATE_LIMIT_DELAY - elapsed)]
          ELSE /\ r_pc' = [r_pc EXCEPT ![t] = "stamp"]
               /\ UNCHANGED r_wake
    /\ UNCHANGED <<r_now, r_last, r_passed, r_sent>>

\* time.sleep returns, not before its time.
WakeUp(t) ==
    /\ r_pc[t] = "sleep"
    /\ r_now >= r_wake[t]
    /\ r_pc' = [r_pc EXCEPT ![t] = "stamp"]
    /\ UNCHANGED <<r_now, r_last, r_wake, r_passed, r_sent>>

\* self._last_request_time = time.time(): the thread has passed the check.
StampTime(t) ==
    /\ r_pc[t] = "stamp"
    /\ r_last' = r_now
    /\ r_passed' = [r_passed EXCEPT ![t] = r_now]
    /\ r_pc' = [r_pc EXCEPT ![t] = "send"]
    /\ UNCHANGED <<r_now, r_wake, r_sent>>

\* _make_request: self.session.get(url, ...) sends the request.
SendRequest(t) ==
    /\ r_pc[t] = "send"
    /\ r_sent' = [r_sent EXCEPT ![t] = r_now]
    /\ r_pc' = [r_pc EXCEPT ![t] = "sent"]
    /\ UNCHANGED <<r_now, r_last, r_wake, r_passed>>

\* A tenth of a second passes while a request is under way.
Tick ==
    /\ r_now < MaxTime
    /\ \E t \in Threads : r_pc[t] # "sent"
    /\ r_now' = r_now + 1
    /\ UNCHANGED <<r_last, r_pc, r_wake, r_passed, r_sent>>

RateIdle ==
    /\ r_now = 0
    /\ r_last = 0
    /\ r_pc = <<>>
    /\ r_wake = <<>>
    /\ r_passed = <<>>
    /\ r_sent = <<>>

\* ------------------------------------------------------- specifications

Init ==
    BatchInit /\ GeoidIdle /\ AssembleIdle /\ TransformIdle
    /\ MoeIdle /\ BoundaryIdle /\ RateIdle

Next ==
    \/ Submit /\ UNCHANGED <<gvars, avars, tvars, vvars, jvars, rvars>>
    \/ \E t \in Tasks : Start(t) /\ UNCHANGED <<gvars, avars, tvars, vvars, jvars, rvars>>
    \/ \E t \in Tasks : Stamp(t) /\ UNCHANGED <<gvars, avars, tvars, vvars, jvars, rvars>>
    \/ \E t \in Tasks : Request(t) /\ UNCHANGED <<gvars, avars, tvars, vvars, jvars, rvars>>
    \/ \E t \in Tasks : Collect(t) /\ UNCHANGED <<gvars, avars, tvars, vvars, jvars, rvars>>
    \/ Merge /\ UNCHANGED <<gvars, avars, tvars, vvars, jvars, rvars>>

Spec == Init /\ [][Next]_vars

InitGeoid ==
    GeoidInit /\ BatchIdle /\ AssembleIdle /\ TransformIdle
    /\ MoeIdle /\ BoundaryIdle /\ RateIdle

NextGeoid ==
    \/ BuildGeoid /\ UNCHANGED <<bvars, avars, tvars, vvars, jvars, rvars>>
    \/ \E geo \in geo_mapping : CreateGeoid(geo) /\ UNCHANGED <<bvars, avars, tvars, vvars, jvars, rvars>>
    \/ ParseGeoid /\ UNCHANGED <<bvars, avars, tvars, vvars, jvars, rvars>>

SpecGeoid == InitGeoid /\ [][NextGeoid]_vars

\* The assembly of a fetch result from a raw response.
InitAssemble ==
    AssembleInit /\ BatchIdle /\ GeoidIdle /\ TransformIdle
    /\ MoeIdle /\ BoundaryIdle /\ RateIdle

NextAssemble ==
    \/ ParseResponse /\ UNCHANGED <<bvars, gvars, tvars, vvars, jvars, rvars>>
    \/ AttachGeoid /\ UNCHANGED <<bvars, gvars, tvars, vvars, jvars, rvars>>

SpecAssemble == InitAssemble /\ [][NextAssemble]_vars

\* The cleaning of a frame, and of the frame cleaned.
InitClean ==
    CleanInit /\ BatchIdle /\ GeoidIdle /\ AssembleIdle
    /\ MoeIdle /\ BoundaryIdle /\ RateIdle

NextClean ==
    \/ \E strategy \in Strategies : \E fill_value \in FillValues :
          Clean(strategy, fill_value) /\ UNCHANGED <<bvars, gvars, avars, vvars, jvars, rvars>>
    \/ CleanAgain /\ UNCHANGED <<bvars, gvars, avars, vvars, jvars, rvars>>

SpecClean == InitClean /\ [][NextClean]_vars

\* The derived metrics of a frame.
InitMetrics ==
    MetricsInit /\ BatchIdle /\ GeoidIdle /\ AssembleIdle
    /\ MoeIdle /\ BoundaryIdle /\ RateIdle

NextMetrics ==
    \/ \E numerator, denominator \in Range(MetricColumns) :
          \E per \in Pers : \E handle_zero \in HandleZero :
            Rates(numerator, denominator, per, handle_zero)
              /\ UNCHANGED <<bvars, gvars, avars, vvars, jvars, rvars>>
    \/ \E column \in Range(MetricColumns) : \E method \in Methods :
          Normalize(column, method) /\ UNCHANGED <<bvars, gvars, avars, vvars, jvars, rvars>>
    \/ \E components \in Components : \E normalize \in BOOLEAN :
          CreateIndex(components, normalize) /\ UNCHANGED <<bvars, gvars, avars, vvars, jvars, rvars>>

SpecMetrics == InitMetrics /\ [][NextMetrics]_vars

\* The variables of fetch_acs5 up to the request.
InitMoe ==
    MoeInit /\ BatchIdle /\ GeoidIdle /\ AssembleIdle /\ TransformIdle
    /\ BoundaryIdle /\ RateIdle

NextMoe ==
    \/ NormalizeVariables /\ UNCHANGED <<bvars, gvars, avars, tvars, jvars, rvars>>
    \/ ExpandMoe /\ UNCHANGED <<bvars, gvars, avars, tvars, jvars, rvars>>

SpecMoe == InitMoe /\ [][NextMoe]_vars

\* The boundary files: id column, join, export.
InitBoundary ==
    BoundaryInit /\ BatchIdle /\ GeoidIdle /\ AssembleIdle /\ TransformIdle
    /\ MoeIdle /\ RateIdle

NextBoundary ==
    \/ \E geo \in Geographies :
          TigerGeoidCol(geo) /\ UNCHANGED <<bvars, gvars, avars, tvars, vvars, rvars>>
    \/ \E geo \in Geographies :
          Join(geo) /\ UNCHANGED <<bvars, gvars, avars, tvars, vvars, rvars>>
    \/ \E format \in Formats :
          Export(format) /\ UNCHANGED <<bvars, gvars, avars, tvars, vvars, rvars>>

SpecBoundary == InitBoundary /\ [][NextBoundary]_vars

\* The requests of concurrent threads through one client.
InitRate ==
    RateInit /\ BatchIdle /\ GeoidIdle /\ AssembleIdle /\ TransformIdle
    /\ MoeIdle /\ BoundaryIdle

NextRate ==
    \/ \E t \in Threads :
          CheckElapsed(t) /\ UNCHANGED <<bvars, gvars, avars, tvars, vvars, jvars>>
    \/ \E t \in Threads :
          WakeUp(t) /\ UNCHANGED <<bvars, gvars, avars, tvars, vvars, jvars>>
    \/ \E t \in Threads :
          StampTime(t) /\ UNCHANGED <<bvars, gvars, avars, tvars, vvars, jvars>>
    \/ \E t \in Threads :
          SendRequest(t) /\ UNCHANGED <<bvars, gvars, avars, tvars, vvars, jvars>>
    \/ Tick /\ UNCHANGED <<bvars, gvars, avars, tvars, vvars, jvars>>

SpecRate == InitRate /\ [][NextRate]_vars

\* --------------------------------------------------------------- claims

Terminal == pc \in {"returned", "raised"}

\* The number of rows of a table equal to r.
Count(table, r) == Cardinality({i \in DOMAIN table : table[i] = r})

RECURSIVE CountIn(_, _)
\* The number of rows equal to r in the tables of the futures ts.
CountIn(ts, r) ==
    IF ts = {} THEN 0
    ELSE LET t == CHOOSE u \in ts : TRUE
         IN Count(future[t].result, r) + CountIn(ts \ {t}, r)

\* Every row a response can hold.
AllRows == {[state |-> FIPS_CODES[i]] : i \in DOMAIN FIPS_CODES}

\* C1: when the list of states is not empty and every task fails, the call
\* returns an empty table and raises nothing.
C1_AllFailReturnsEmpty ==
    (Terminal /\ Tasks # {} /\ Failed = Tasks)
        => (pc = "returned" /\ err = "" /\ ret.table = <<>>)

\* C2: called with an empty list of states, the call returns an empty table,
\* having submitted no task and sent no request.
C2_EmptyListReturnsEmpty ==
    (Terminal /\ states = <<>>)
        => (pc = "returned" /\ ret.table = <<>> /\ Tasks = {} /\ writers = {})

\* C3: when at least one task succeeds, the failures of the others abort
\* nothing: the call raises nothing, every task has finished when it ends,
\* and the table returned holds each row exactly as often as the tables of
\* the successful tasks hold it.
C3_FailuresIsolated ==
    (Terminal /\ Succeeded # {})
        => /\ pc = "returned"
           /\ err = ""
           /\ \A t \in Tasks : task[t] = "finished"
           /\ Len(results) = Cardinality(Succeeded)
           /\ \A r \in AllRows : Count(ret.table, r) = CountIn(Succeeded, r)

\* C3 happens: a call returned rows although a task failed.
C3_Witness ==
    /\ pc = "returned"
    /\ Failed # {}
    /\ Succeeded # {}
    /\ ret.table # <<>>

\* C4: the call ends, with the concatenated table or with the error of the
\* concatenation, only when every submitted task has run to its end and its
\* future holds a result or an exception.
C4_MergeAfterAllTerminal ==
    Terminal => \A t \in Tasks : task[t] = "finished" /\ future[t].done

\* C4 happens: a call over several states returned.
C4_Witness ==
    /\ pc = "returned"
    /\ Cardinality(Tasks) >= 2
    /\ Cardinality(Tasks) > parallel_workers

\* C5: one task is submitted per state of the list, and at no time do more
\* than parallel_workers tasks run; the others are still queued.
C5_BoundedPool ==
    /\ Cardinality(Running) <= parallel_workers
    /\ pc \in {"collect", "returned", "raised"}
         => /\ Tasks = DOMAIN states
            /\ \A t \in Tasks : futures[t] = states[t]
            /\ \A t \in Tasks : task[t] \in {"queued", "stamp", "request", "finished"}

\* C5 happens: every worker is busy and a task waits in the queue.
C5_Witness ==
    /\ Cardinality(Running) = parallel_workers
    /\ \E t \in Tasks : task[t] = "queued"

\* C6: no variable is written by one task and read or written by another.
C6_NoSharedMutableState ==
    \A t \in writers : \A u \in readers \cup writers : u = t

\* The failure records the returned value carries.
FailureRecords(value) ==
    IF "failures" \in DOMAIN value THEN value.failures ELSE {}

\* The failures of the tasks: the state and the cause of each.
Failures == {[state |-> futures[t], cause |-> future[t].exception] : t \in Failed}

\* The failures the log names.
LoggedFailures ==
    {[state |-> e.state, cause |-> e.cause] : e \in {x \in log : x.level = "error"}}

\* C7 as stated: the returned value carries the record of the failed states
\* and their causes.
C7_ReturnCarriesFailures ==
    pc = "returned" => FailureRecords(ret) = Failures

\* C7 as amended: the returned value is the concatenated table alone; the
\* failed states and their causes are in the log, one error entry each.
C7_FailuresOnlyLogged ==
    pc = "returned" => (DOMAIN ret = {"table"} /\ LoggedFailures = Failures)

\* C7 happens: a call returned after a task failed.
C7_Witness ==
    /\ pc = "returned"
    /\ Failed # {}
    /\ \E e \in log : e.level = "error"

\* C8: called with a geography level the request builder does not accept,
\* the call raises that error before it submits any task, and the error is
\* not logged as the failure of a state.
C8_UnsupportedGeographySynchronous ==
    (Terminal /\ geography \notin geo_mapping /\ states # <<>>)
        => /\ pc = "raised"
           /\ err = "ValueError: Unsupported geography"
           /\ Tasks = {}
           /\ \A e \in log : e.cause # "ValueError: Unsupported geography"

\* The components of args that are not None.
Supplied(args) ==
    [k \in {c \in {"state", "county", "tract", "block_group"} : args[c] # None}
        |-> args[k]]

\* The components are those of one level: none is given after one left out.
LevelConforming(args) ==
    /\ args.tract # None => args.county # None
    /\ args.block_group # None => args.tract # None

\* Every component given has its fixed width.
FixedWidths(args) ==
    \A k \in {"state", "county", "tract", "block_group"} :
        args[k] # None => Len(args[k]) = Width(k)

\* C9: for the components of one level, each of its fixed width,
\* parse_geoid of build_geoid is exactly the components given.
C9_RoundTrip ==
    (g_pc = "parsed" /\ g_op = "build_geoid" /\ LevelConforming(g_args)
       /\ FixedWidths(g_args))
        => g_parsed = Supplied(g_args)

\* C9 happens: a block group GEOID whose tract mixes digits was built and
\* parsed.
C9_Witness ==
    /\ g_pc = "parsed"
    /\ g_op = "build_geoid"
    /\ FixedWidths(g_args)
    /\ g_args.block_group # None
    /\ g_args.tract # None
    /\ g_args.county # None
    /\ g_args.tract[1] # g_args.tract[2]
    /\ Len(g_geoid) = 12

\* C10: build_geoid given a component whose length is not its fixed width
\* raises InvalidComponent and builds no GEOID.
C10_WrongWidthRejected ==
    (g_op = "build_geoid" /\ ~FixedWidths(g_args))
        => (g_raised = "InvalidComponent" /\ g_pc # "built")

\* ---- claims about the assembly of a fetch result

\* DataTransformer.aggregate_to_geography's geoid_lengths: the length of the
\* GEOID of a level.
geoid_lengths(geo) ==
    CASE geo = "state" -> 2
      [] geo = "county" -> 5
      [] geo = "tract" -> 11
      [] geo = "block group" -> 12

\* The levels _create_geoid has a branch for.
GeoidLevels == {"state", "county", "tract", "block group"}

\* The friendly column of the variable requested.
Friendly == a_var_dict[Code]

\* The cell of a header column in data row r of the raw response.
RawCell(r, header) == a_response[r + 1][IndexOf(Head(a_response), header)]

\* C11: at the levels state, county, tract and block group, the GEOID of
\* every row of a fetch result has the fixed length of the level (2, 5, 11,
\* 12), whatever component strings the response row contains.
C11_GeoidLengthFixed ==
    (a_pc = "assembled" /\ a_geography \in GeoidLevels)
        => \A r \in DOMAIN a_df.rows :
              Len(a_df.rows[r]["GEOID"].s) = geoid_lengths(a_geography)

\* C12: a non-empty raw response at the county level gives one row per data
\* row, the friendly column holding the number the cell string denotes and
\* GEOID the state cell followed by the county cell.
C12_CountyRowsAssembled ==
    (a_pc = "assembled" /\ a_geography = "county" /\ a_response # <<>>)
        => /\ Len(a_df.rows) = Len(a_response) - 1
           /\ \A r \in DOMAIN a_df.rows :
                /\ a_data[r].kind = "int" => a_df.rows[r][Friendly] = Num(a_data[r].n)
                /\ a_df.rows[r]["GEOID"]
                     = Str(RawCell(r, "state") \o RawCell(r, "county"))

\* C12 happens: the row of Adams County, Ohio, population 41780, assembled
\* under the friendly name.
C12_Witness ==
    /\ a_pc = "assembled"
    /\ a_geography = "county"
    /\ Len(a_data) = 1
    /\ Friendly = "total_population"
    /\ Len(a_df.rows) = 1
    /\ a_response[2][2] = <<"4", "1", "7", "8", "0">>
    /\ a_df.rows[1]["total_population"] = Num(41780)
    /\ a_df.rows[1]["GEOID"] = Str(<<"3", "9", "0", "0", "1">>)

\* C13: given an empty raw response, a fetch returns an empty table, with no
\* row, and does not fail.
C13_EmptyResponseEmptyTable ==
    (a_response = <<>> /\ a_pc \notin {"response", "parsed"})
        => (a_pc = "assembled" /\ a_raised = "" /\ a_df.rows = <<>>)

\* C14: a cell of a variable column that is no number becomes the missing
\* marker, for that cell alone: the fetch raises nothing for it, and every
\* other cell of the frame keeps the value the response gave it.
C14_UnconvertibleCellCoerced ==
    (a_response # <<>> /\ a_pc \in {"parsed", "assembled", "raised"})
        => /\ a_raised = ""
           /\ Len(a_df.rows) = Len(a_data)
           /\ \A r \in DOMAIN a_df.rows :
                /\ a_data[r].kind = "text" => a_df.rows[r][Friendly] = NaN
                /\ a_data[r].kind = "int" => a_df.rows[r][Friendly] = Num(a_data[r].n)
                /\ \A i \in DOMAIN Head(a_response) :
                     Head(a_response)[i] # Code
                        => a_df.rows[r][Head(a_response)[i]] = Str(a_response[r + 1][i])

\* C14 happens: of two rows the first holds text, the second 41780, and the
\* fetch has returned.
C14_Witness ==
    /\ a_pc = "assembled"
    /\ Len(a_data) = 2
    /\ a_data[1] = TextValue(<<"x">>)
    /\ a_data[2] = IntValue(41780)
    /\ a_df.rows[1][Friendly] = NaN
    /\ a_df.rows[2][Friendly] = Num(41780)

\* C15: no numeric cell of a fetch result holds one of the sentinel integers
\* of the data source.
C15_NoSentinelInResult ==
    a_pc = "assembled"
        => \A r \in DOMAIN a_df.rows :
              \A c \in DOMAIN a_df.rows[r] :
                 a_df.rows[r][c].t = "num" => a_df.rows[r][c].n \notin MISSING_CODES

\* ---- claims about clean_missing_values

\* C16: clean_missing_values with strategy nan turns every numeric cell equal
\* to a sentinel into the missing marker, in every column and row, alters no
\* other cell, and adds or removes no row or column.
C16_SentinelsBecomeMissing ==
    (t_pc \in {"returned", "again"} /\ t_call.op = "clean_missing_values"
       /\ t_call.strategy = "nan")
        => /\ t_out.columns = t_df.columns
           /\ Len(t_out.rows) = Len(t_df.rows)
           /\ \A r \in DOMAIN t_df.rows :
                /\ DOMAIN t_out.rows[r] = DOMAIN t_df.rows[r]
                /\ \A c \in DOMAIN t_df.rows[r] :
                     t_out.rows[r][c] =
                        IF t_df.rows[r][c].t = "num" /\ t_df.rows[r][c].n \in MISSING_CODES
                        THEN NaN ELSE t_df.rows[r][c]

\* C16 happens: a row holding a sentinel in b, the number next to a sentinel
\* in a and the text of a sentinel in GEOID was cleaned with strategy nan.
C16_Witness ==
    /\ t_pc = "returned"
    /\ t_call.op = "clean_missing_values"
    /\ t_call.strategy = "nan"
    /\ Len(t_df.rows) = 2
    /\ t_df.rows[1] = [GEOID |-> Str(Format(-666666666)), a |-> Num(-666666665),
                       b |-> Num(-999999999)]
    /\ t_out.rows[1] = [GEOID |-> Str(Format(-666666666)), a |-> Num(-666666665),
                        b |-> NaN]

\* C17: clean_missing_values applied to its own result, with the same
\* strategy and fill value, returns that result.
C17_CleanIdempotent ==
    (t_pc = "again" /\ t_call.op = "clean_missing_values") => t_again = t_out

\* C17 happens: a frame holding a sentinel and a missing cell was filled with
\* 0, and the filled frame cleaned again.
C17_Witness ==
    /\ t_pc = "again"
    /\ t_call.op = "clean_missing_values"
    /\ t_call.strategy = "fill"
    /\ t_call.fill_value = Num(0)
    /\ \E r \in DOMAIN t_df.rows : t_df.rows[r]["a"] = NaN
    /\ \E r \in DOMAIN t_df.rows : t_df.rows[r]["b"] = Num(-999999999)
    /\ t_out # t_df
    /\ t_again = t_out

\* ---- claims about the derived metrics

\* C18: calculate_rates gives every row whose denominator is zero or missing,
\* whatever its numerator, the missing marker under handle_zero nan and
\* exactly 0 under handle_zero zero, and under neither an infinite value.
C18_UndefinedRateByPolicy ==
    (t_pc = "returned" /\ t_call.op = "calculate_rates"
       /\ t_call.handle_zero \in {"nan", "zero"})
        => \A r \in DOMAIN t_df.rows :
              t_df.rows[r][t_call.denominator] \in {FNaN, FInt(0)}
                 => /\ t_call.handle_zero = "nan" => t_out.rows[r]["rate"] = FNaN
                    /\ t_call.handle_zero = "zero" => t_out.rows[r]["rate"] = FInt(0)
                    /\ t_out.rows[r]["rate"].t \notin {"inf", "ninf"}

\* C19: normalize_column of a column whose method's denominator (max - min,
\* std, q3 - q1) is exactly zero raises DegenerateInput and returns no frame.
C19_DegenerateRejected ==
    (t_pc # "given" /\ t_call.op = "normalize_column"
       /\ denominator_square(NonMissing(t_df, t_call.column), t_call.method) = FInt(0))
        => (t_pc = "raised" /\ t_raised = "DegenerateInput")

\* C20: create_index of components whose weights total zero (no component,
\* or weights that cancel) raises InvalidWeights and returns no index column.
C20_ZeroTotalWeightRejected ==
    (t_pc # "given" /\ t_call.op = "create_index"
       /\ total(t_call.components, DOMAIN t_call.components) = 0)
        => (t_pc = "raised" /\ t_raised = "InvalidWeights")

\* ---- claims about the requests of a batch fetch

\* C27: in a batch fetch over distinct state ids, at every accepted level,
\* each task's request is restricted to its own state: every row of the
\* table returned belongs to a state of the list, and no row is in the
\* tables of two tasks.
C27_TasksRestrictedToOwnState ==
    (pc = "returned" /\ geography \in geo_mapping)
        => /\ \A i \in DOMAIN ret.table : ret.table[i].state \in Range(states)
           /\ \A t, u \in Succeeded :
                t # u => \A r \in AllRows :
                           ~(Count(future[t].result, r) > 0
                               /\ Count(future[u].result, r) > 0)

\* ---- claims about the columns of a fetch result

\* The headers the protocol reserves: the name column and the geography
\* component columns.
Reserved ==
    {"NAME", "state", "county", "tract", "block group", "place",
     "zip code tabulation area", "congressional district"}

\* C23: the table assembled from a raw response has no column for a header
\* that var_dict does not map and the protocol does not reserve.
C23_UnmappedColumnsDropped ==
    (a_pc \in {"parsed", "assembled"} /\ a_response # <<>>)
        => \A h \in Range(Head(a_response)) :
              (h \notin DOMAIN a_var_dict /\ h \notin Reserved)
                 => h \notin Range(a_df.columns)

\* C26: at every level the request builder accepts, every row of the table a
\* successful fetch returns has a GEOID.
C26_GeoidAtEveryLevel ==
    (a_pc = "assembled" /\ a_response # <<>> /\ a_geography \in geo_mapping)
        => /\ "GEOID" \in Range(a_df.columns)
           /\ \A r \in DOMAIN a_df.rows : "GEOID" \in DOMAIN a_df.rows[r]

\* ---- claims about the margin-of-error expansion

\* var_dict as it was before the expansion.
Original == normalize_variables(v_before)

\* The sibling of an estimate code: the code with its trailing E alone
\* replaced by M.
Sibling(code) == SubSeq(code, 1, Len(code) - 1) \o <<"M">>

\* C21: with include_moe, every entry whose code ends in E gains one sibling
\* whose code is the code with only the trailing E replaced by M and whose
\* name is the name followed by _moe; a code not ending in E gains none, and
\* every original entry is kept as it was.
C21_MoeSiblings ==
    (v_pc = "expanded" /\ v_include_moe)
        => /\ \A c \in DOMAIN Original :
                c \in DOMAIN v_var_dict /\ v_var_dict[c] = Original[c]
           /\ \A c \in DOMAIN Original :
                endswith_E(c)
                   => /\ Sibling(c) \in DOMAIN v_var_dict
                      /\ Sibling(c) \notin DOMAIN Original
                           => v_var_dict[Sibling(c)]
                                = Original[c] \o <<"_", "m", "o", "e">>
           /\ DOMAIN v_var_dict
                = DOMAIN Original
                  \cup {Sibling(c) : c \in {d \in DOMAIN Original : endswith_E(d)}}

\* C22: after fetch_acs5 with include_moe, the caller's variables object
\* holds exactly the entries it held before the call.
C22_VariablesNotMutated ==
    (v_pc = "expanded" /\ v_include_moe) => v_variables = v_before

\* ---- claims about the boundary files and the export

\* C24: the lookup of the boundary-file id column of a level with no
\* boundary-file convention raises UnsupportedGeography and returns no
\* column name.
C24_LookupRejectsUnregistered ==
    (j_call.op = "_get_tiger_geoid_col" /\ j_call.geography \notin file_codes)
        => (j_pc = "raised" /\ j_raised = "UnsupportedGeography")

\* C25: the export of a table with no geometry to a geometry-bearing format
\* raises and writes no file; to csv and parquet it writes the file; an
\* unrecognized format raises.
C25_GeometryFormatsNeedGeometry ==
    j_call.op = "export"
        => /\ (lower(j_call.format) \in {"geopackage", "gpkg", "geojson", "shapefile", "shp"}
                 /\ "geometry" \notin j_call.data.columns)
                => (j_pc = "raised" /\ j_raised # "" /\ j_files = {})
           /\ (lower(j_call.format) \in {"csv", "parquet"}
                 /\ "geometry" \notin j_call.data.columns)
                => (j_pc = "returned" /\ j_raised = ""
                      /\ \E f \in j_files : f.path = "out" /\ ~f.geometry)
           /\ lower(j_call.format) = "xlsx"
                => (j_pc = "raised" /\ j_raised # "" /\ j_files = {})

\* C25 happens: the export of a fetched table of two rows to GeoJSON raised
\* and wrote nothing.
C25_Witness ==
    /\ j_call.op = "export"
    /\ j_call.format = "GeoJSON"
    /\ j_call.data.kind = "DataFrame"
    /\ Len(j_call.data.rows) = 2
    /\ j_pc = "raised"
    /\ j_files = {}

\* C29: join_tiger_geometries at the levels state, county, tract and block
\* group, the boundaries not cached, returns a table holding every row of
\* the table given once (boundaries are unique per GEOID), with the geometry
\* of its boundary or with none.
C29_JoinKeepsRows ==
    (j_call.op = "join_tiger_geometries" /\ ~j_call.cached
       /\ j_call.geography \in {"state", "county", "tract", "block group"})
        => /\ j_pc = "joined"
           /\ j_raised = ""
           /\ Len(j_out.rows) = Len(j_df.rows)
           /\ \A i \in DOMAIN j_df.rows :
                /\ j_out.rows[i].GEOID = j_df.rows[i].GEOID
                /\ j_out.rows[i].geometry
                     = IF j_df.rows[i].GEOID \in j_tiger.geoids
                       THEN j_df.rows[i].GEOID ELSE ""

\* ---- claims about the rate limit

\* C28: of two requests sent through the one client, by concurrent threads
\* or not, the later is sent at least RATE_LIMIT_DELAY after the earlier
\* passed the rate-limit check.
C28_RateLimitUnderConcurrency ==
    \A t, u \in DOMAIN r_pc :
        (t # u /\ r_pc[t] = "sent" /\ r_pc[u] = "sent" /\ r_sent[t] <= r_sent[u])
            => r_sent[u] >= r_passed[t] + RATE_LIMIT_DELAY

====
